---- MODULE Spec2Model ----
(***************************************************************************)
(* The reminder subsystem of src/main.py: the reminders file written by    *)
(* atomic_write_json, the job queue of armed timers, the command handlers  *)
(* (cmd_remind, set_reminder, list_reminders, cancel_reminder), the timer  *)
(* callback alarm, and startup recovery (reschedule_persisted_reminders).  *)
(*                                                                         *)
(* Execution model: one asyncio event loop.  Updates are handled one at a  *)
(* time (one handler in flight), job callbacks are tasks of the same loop  *)
(* and interleave with the handler only at an await.  A process crash can  *)
(* happen between any two steps; it loses everything but the files.        *)
(* The environment decides whether a read of the file, a write of it, or   *)
(* an outbound send succeeds.                                              *)
(***************************************************************************)
EXTENDS Integers, Sequences, FiniteSets, TLC

\* ---------------------------------------------------------------- bounds
MaxIds == 1
MaxTime == 2
MaxCrashes == 1

\* ------------------------------------------------------------- constants
MAX_REMINDER_SECONDS == 31536000
MIN_REMINDER_SECONDS == 1

\* Reminder ids (uuid4 strings in the code).  OldIds name the records the
\* file holds when the model starts, FreshIds the ones create makes.
OldIds == {1}
FreshIds == {Cardinality(OldIds) + k : k \in 1..MaxIds}
Ids == OldIds \cup FreshIds
Users == {"u1", "u2"}
NoId == 0

\* The (quantity, unit) pairs an inbound text may carry, and no time at all.
NoTime == <<-1, "none">>
TimeInputs == {<<0, "s">>, <<1, "s">>, <<2, "s">>, <<366, "d">>, NoTime}

VARIABLES
    now,        \* the wall clock, in epoch seconds (datetime.utcnow)
    proc,       \* the process: "down", "starting", "up", "failed", "exited"
    crashes,    \* how many times the process has crashed
    nextId,     \* the next fresh reminder id (uuid4: never repeats)
    file,       \* reminders.json: [kind, data]
    tmp,        \* the temp file of the write in progress
    orphans,    \* temp files a crash has left behind (never read again)
    wr,         \* the atomic_write_json call in progress, or NoWrite
    jobs,       \* the job queue: armed run_once jobs [name, chat_id, due]
    alarms,     \* alarm callbacks suspended in their send: [rid, chat_id]
    handler,    \* the update handler in flight
    loaded,     \* what startup recovery has loaded and not yet registered
    listing,    \* the answer list_reminders is sending: [user, ids]
    token,      \* TOKEN: "set", "placeholder" (BOT_TOKEN unset) or "empty"
    exit_status, \* the status the process ended with by itself, or NoExit
    parsing,    \* a call of parse_delay_from_text: [num, unit, pc, seconds]
    sends,      \* per id, the outcomes of alarm's sends, in order
    created,    \* ids whose record a create has persisted
    cancelled,  \* ids whose record cancel_reminder has deleted
    confirmed,  \* ids for which the user was told "Cancelled reminder"
    faulty      \* the storage of this run can fail (fixed from the start)

vars == <<now, proc, crashes, nextId, file, tmp, orphans, wr, jobs, alarms,
          handler, loaded, listing, token, exit_status, parsing, sends,
          created, cancelled, confirmed, faulty>>

hist == <<orphans, sends, created, cancelled, confirmed, faulty>>

\* ------------------------------------------------------------ file values
Missing == [kind |-> "missing", data |-> {}]
Corrupt == [kind |-> "corrupt", data |-> {}]
Partial == [kind |-> "partial", data |-> {}]
\* Valid JSON that is not an object: [1], [] and null.
JsonArray == [kind |-> "array", data |-> {}]
JsonEmptyArray == [kind |-> "empty_array", data |-> {}]
JsonNull == [kind |-> "null", data |-> {}]
NonObject == {"array", "empty_array", "null"}
Obj(d) == [kind |-> "obj", data |-> d]

\* A required key that a record in the file does not have.
NoKey == "missing"

\* What an earlier run, an older variant of the program or an edit may have
\* left in the file: a record that is due, a record without its chat_id, a
\* record more than the ceiling ahead of the clock (the wall clock was set
\* back, or the record was not made by this create), and a record that is
\* not due yet.
OldDue == [id |-> 1, chat_id |-> "u1", user_id |-> "u1", when_ts |-> 0]
OldNoChat == [id |-> 1, chat_id |-> NoKey, user_id |-> "u1", when_ts |-> 0]
OldOver ==
    [id |-> 1, chat_id |-> "u1", user_id |-> "u1",
     when_ts |-> MAX_REMINDER_SECONDS + 1]

OldFuture == [id |-> 1, chat_id |-> "u1", user_id |-> "u1", when_ts |-> 2]

OldRecords == {OldDue, OldNoChat, OldOver, OldFuture}

NoWrite == [owner |-> "none", rid |-> NoId, data |-> {}]
Idle == [op |-> "none", pc |-> "idle", rid |-> NoId, msg |-> "none"]
NoListing == [user |-> "none", ids |-> <<>>]
NoExit == -1
NoParsing == [num |-> 0, unit |-> "none", pc |-> "none", seconds |-> 0]
\* What main and the handlers never change once the process is running.
boot == <<token, exit_status, parsing>>

IdsOf(d) == {r.id : r \in d}

\* load_reminders: {} for a missing file, {} when open or json.load raises,
\* and otherwise whatever JSON value the file holds.
load_reminders(f, readOk) ==
    IF f.kind = "missing" THEN Obj({})
    ELSE IF ~readOk \/ f.kind \in {"corrupt", "partial"} THEN Obj({})
    ELSE f

\* ------------------------------------------------------------ pure helpers
Multiplier(unit) ==
    CASE unit = "s" -> 1
      [] unit = "m" -> 60
      [] unit = "h" -> 3600
      [] unit = "d" -> 86400

NotFound == -1

\* Mutant of parse_delay_from_text: without the floor at MIN_REMINDER_SECONDS.
parse_delay_no_floor(t) ==
    IF t = NoTime THEN NotFound
    ELSE LET seconds == t[1] * Multiplier(t[2])
         IN  IF seconds > MAX_REMINDER_SECONDS THEN NotFound ELSE seconds

\* parse_delay_from_text on a text whose first time expression is <<num, unit>>.
parse_delay_from_text(t) ==
    IF t = NoTime THEN NotFound
    ELSE LET seconds == t[1] * Multiplier(t[2])
         IN  IF seconds > MAX_REMINDER_SECONDS THEN NotFound
             ELSE IF seconds < MIN_REMINDER_SECONDS THEN MIN_REMINDER_SECONDS
             ELSE seconds

\* Mutant of ScheduleDelay: the nominal delay, without the floor.
ScheduleDelayNoFloor(r, t) == r.when_ts - t

\* schedule_reminder_in_app: the delay, and the jobs run_once adds for
\* record r at time t (none when the delay is over the ceiling).
ScheduleDelay(r, t) ==
    IF r.when_ts - t <= 0 THEN 1 ELSE r.when_ts - t

\* Mutant of schedule_reminder_in_app: a record whose time has passed is
\* dropped instead of being armed with the delay 1.
schedule_reminder_dropping_past_due(r, t) ==
    IF r.when_ts - t <= 0 THEN {}
    ELSE IF ScheduleDelay(r, t) > MAX_REMINDER_SECONDS THEN {}
    ELSE IF r.chat_id = NoKey THEN {}
    ELSE {[name |-> r.id, chat_id |-> r.chat_id, due |-> t + ScheduleDelay(r, t)]}

\* reminder_obj["chat_id"] raises KeyError on a record without the key; the
\* only caller that meets such a record, the recovery loop, catches it.
schedule_reminder_in_app(r, t) ==
    IF ScheduleDelay(r, t) > MAX_REMINDER_SECONDS THEN {}
    ELSE IF r.chat_id = NoKey THEN {}
    ELSE {[name |-> r.id, chat_id |-> r.chat_id, due |-> t + ScheduleDelay(r, t)]}

\* Mutant of reschedule_loop: one try around the whole loop, so that the
\* first record that fails ends it.
reschedule_loop_aborting(d, t) ==
    IF \E r \in d : r.chat_id = NoKey THEN {}
    ELSE UNION {schedule_reminder_in_app(r, t) : r \in d}

\* The loop of reschedule_persisted_reminders: every record is passed to
\* schedule_reminder_in_app inside its own try; a record that raises adds
\* nothing and the loop goes on.
reschedule_loop(d, t) ==
    UNION {schedule_reminder_in_app(r, t) : r \in d}

Busy == wr # NoWrite

\* Whether open and json.load can succeed (TRUE) or raise (FALSE) in this run.
ReadOutcomes == IF faulty THEN BOOLEAN ELSE {TRUE}

InitBot ==
    /\ now = 0
    /\ proc = "down"
    /\ crashes = 0
    /\ file \in {Missing, Corrupt, JsonArray, JsonEmptyArray, JsonNull, Obj({})}
                \cup {Obj({r}) : r \in OldRecords}
    /\ nextId = Cardinality(OldIds) + 1
    /\ tmp = "none"
    /\ orphans = 0
    /\ wr = NoWrite
    /\ jobs = {}
    /\ alarms = {}
    /\ handler = Idle
    /\ loaded = Obj({})
    /\ listing = NoListing
    /\ sends = [i \in Ids |-> <<>>]
    /\ created = {}
    /\ cancelled = {}
    /\ confirmed = {}
    /\ faulty \in BOOLEAN
    /\ token \in {"set", "placeholder", "empty"}
    /\ exit_status = NoExit

Init ==
    /\ InitBot
    /\ parsing = NoParsing

\* ----------------------------------------------------------------- startup
\* main, up to the load of reschedule_persisted_reminders (post_init runs
\* before polling starts).
main ==
    /\ proc \in {"down", "failed"}
    /\ IF token \in {"placeholder", "empty"}
       THEN /\ proc' = "exited"
            /\ exit_status' = 0
            /\ UNCHANGED loaded
       ELSE /\ \E readOk \in ReadOutcomes :
                 loaded' = load_reminders(file, readOk)
            /\ proc' = "starting"
            /\ exit_status' = NoExit
    /\ UNCHANGED <<now, crashes, nextId, file, tmp, wr, jobs, alarms, handler,
                   hist, listing, token, parsing>>

\* The rest of reschedule_persisted_reminders: nothing to do for a falsy
\* value ({}, [], null), else the loop over list(reminders.items()).  A JSON
\* array has no .items(): the AttributeError leaves post_init and
\* run_polling, and the process ends.
reschedule_persisted_reminders ==
    /\ proc = "starting"
    /\ IF loaded.kind = "array"
       THEN /\ proc' = "failed"
            /\ exit_status' = 1
            /\ UNCHANGED jobs
       ELSE /\ proc' = "up"
            /\ jobs' = reschedule_loop(loaded.data, now)
            /\ UNCHANGED exit_status
    /\ loaded' = Obj({})
    /\ UNCHANGED <<now, crashes, nextId, file, tmp, wr, alarms, handler, hist,
                   listing, token, parsing>>

Crash ==
    /\ proc = "up"
    /\ crashes < MaxCrashes
    /\ now < MaxTime
    /\ proc' = "down"
    /\ crashes' = crashes + 1
    /\ tmp' = "none"
    /\ orphans' = IF tmp = "none" THEN orphans ELSE orphans + 1
    /\ wr' = NoWrite
    /\ jobs' = {}
    /\ alarms' = {}
    /\ handler' = Idle
    /\ listing' = NoListing
    /\ UNCHANGED <<now, nextId, file, loaded, sends, created, cancelled,
                   confirmed, faulty, boot>>

\* A second passes.  A running job queue runs what is due before the next.
Tick ==
    /\ now < MaxTime
    /\ proc # "up" => now + 1 < MaxTime
    /\ proc = "up" => \A j \in jobs : j.due > now
    /\ ~Busy
    /\ now' = now + 1
    /\ UNCHANGED <<proc, crashes, nextId, file, tmp, wr, jobs, alarms, handler,
                   loaded, hist, listing, boot>>

\* ------------------------------------------------------- atomic_write_json
\* Mutant of json_dump: the data is written over the target file itself.
json_dump_in_place(f, t, data) ==
    IF t = "empty" THEN [file |-> Partial, tmp |-> "partial"]
    ELSE [file |-> Obj(data), tmp |-> "full"]

\* json.dump into the temp file: the target file is not touched.
json_dump(f, t, data) ==
    IF t = "empty" THEN [file |-> f, tmp |-> "partial"]
    ELSE [file |-> f, tmp |-> "full"]

\* tempfile.NamedTemporaryFile(delete=False, dir=path.parent)
write_create_tmp ==
    /\ Busy
    /\ tmp = "none"
    /\ tmp' = "empty"
    /\ UNCHANGED <<now, proc, crashes, nextId, file, wr, jobs, alarms,
                   handler, loaded, hist, listing, boot>>

\* with open(tmp.name, "w") as f: json.dump(data, f)
write_dump ==
    /\ Busy
    /\ tmp \in {"empty", "partial"}
    /\ file' = json_dump(file, tmp, wr.data).file
    /\ tmp' = json_dump(file, tmp, wr.data).tmp
    /\ UNCHANGED <<now, proc, crashes, nextId, wr, jobs, alarms, handler,
                   loaded, hist, listing, boot>>

\* What the caller of save_reminders does next, without an await in between:
\* cmd_remind and set_reminder schedule the record and await their reply,
\* cancel_reminder awaits its reply, alarm returns.
AfterSave(w) ==
    CASE w.owner \in {"cmd_remind", "set_reminder"} ->
           /\ jobs' = jobs \cup
                 UNION {schedule_reminder_in_app(r, now) :
                           r \in {x \in w.data : x.id = w.rid}}
           /\ created' = created \cup {w.rid}
           /\ handler' = [handler EXCEPT !.pc = "reply", !.msg = "set"]
           /\ UNCHANGED cancelled
      [] w.owner = "cancel_reminder" ->
           /\ cancelled' = cancelled \cup {w.rid}
           /\ handler' = [handler EXCEPT !.pc = "reply", !.msg = "cancelled"]
           /\ UNCHANGED <<jobs, created>>
      [] w.owner = "alarm" ->
           UNCHANGED <<jobs, handler, created, cancelled, boot>>

\* os.replace(tmp.name, str(path)); the finally clause finds no temp file.
write_replace ==
    /\ Busy
    /\ tmp = "full"
    /\ file' = Obj(wr.data)
    /\ tmp' = "none"
    /\ wr' = NoWrite
    /\ AfterSave(wr)
    /\ UNCHANGED <<now, proc, crashes, nextId, orphans, alarms, loaded, listing,
                   sends, confirmed, faulty, boot>>

\* What a caller of save_reminders does when it raises: no caller catches
\* it.  A handler ends with the exception; alarm ends with it too.
AfterSaveError(w) ==
    IF w.owner = "alarm" THEN handler
    ELSE [handler EXCEPT !.pc = "raised", !.msg = "OSError"]

\* A step of atomic_write_json raises (no space, no permission, ...): the
\* finally clause removes the temp file and the exception leaves the caller.
write_fail ==
    /\ faulty
    /\ Busy
    /\ tmp' = "none"
    /\ wr' = NoWrite
    /\ handler' = AfterSaveError(wr)
    /\ UNCHANGED <<now, proc, crashes, nextId, file, jobs, alarms, loaded,
                   hist, listing, boot>>

\* ---------------------------------------------------------------- handlers
CanHandle == proc = "up" /\ ~Busy /\ handler = Idle

Rem(rid, u, when) ==
    [id |-> rid, chat_id |-> u, user_id |-> u, when_ts |-> when]

\* The handler ends with an uncaught exception (neither a JSON array nor
\* null supports reminders[rid] = rem or reminders.values()).
Raise(op, rid, exc) ==
    /\ handler' = [op |-> op, pc |-> "raised", rid |-> rid, msg |-> exc]
    /\ UNCHANGED wr

\* The part cmd_remind and set_reminder share: build the record, load,
\* insert, save (then schedule and reply, see AfterSave).
Create(op, u, seconds) ==
    /\ nextId \in FreshIds
    /\ now + seconds <= MaxTime
    /\ nextId' = nextId + 1
    /\ \E readOk \in ReadOutcomes :
         LET reminders == load_reminders(file, readOk)
             rem == Rem(nextId, u, now + seconds)
         IN  IF reminders.kind \in NonObject
             THEN Raise(op, nextId, "TypeError")
             ELSE /\ wr' = [owner |-> op, rid |-> nextId,
                            data |-> reminders.data \cup {rem}]
                  /\ handler' = [op |-> op, pc |-> "save", rid |-> nextId,
                                 msg |-> "none"]
    /\ UNCHANGED <<now, proc, crashes, file, tmp, jobs, alarms, loaded, hist,
                   listing,
                   boot>>

Reply(op, rid, msg) ==
    /\ handler' = [op |-> op, pc |-> "reply", rid |-> rid, msg |-> msg]
    /\ UNCHANGED <<now, proc, crashes, nextId, file, tmp, wr, jobs, alarms,
                   loaded, hist, listing, boot>>

\* /remind <time> <task>
cmd_remind ==
    /\ CanHandle
    /\ \E u \in Users, hasArgs \in BOOLEAN, t \in TimeInputs :
         IF ~hasArgs THEN Reply("cmd_remind", NoId, "usage")
         ELSE IF parse_delay_from_text(t) = NotFound
              THEN Reply("cmd_remind", NoId, "parse_error")
              ELSE Create("cmd_remind", u, parse_delay_from_text(t))

\* Free text: "remind me to X in N unit" first, any time expression second.
set_reminder ==
    /\ CanHandle
    /\ \E u \in Users, pattern \in BOOLEAN, t \in TimeInputs :
         /\ pattern => t # NoTime
         /\ IF parse_delay_from_text(t) = NotFound
            THEN Reply("set_reminder", NoId,
                       IF pattern THEN "parse_error" ELSE "unknown")
            ELSE Create("set_reminder", u, parse_delay_from_text(t))

\* sorted(user_rems, key=lambda x: x["when_ts"]): ascending when_ts, and
\* for equal when_ts the order of the file (sorted is stable), as ids.
RECURSIVE sorted_by_when_ts(_)
sorted_by_when_ts(rems) ==
    IF rems = {} THEN <<>>
    ELSE LET first == CHOOSE r \in rems : \A q \in rems :
                         \/ r.when_ts < q.when_ts
                         \/ (r.when_ts = q.when_ts /\ r.id <= q.id)
         IN  <<first.id>> \o sorted_by_when_ts(rems \ {first})

\* /reminders
list_reminders ==
    /\ CanHandle
    /\ \E u \in Users, readOk \in ReadOutcomes :
         LET reminders == load_reminders(file, readOk)
             user_rems == {r \in reminders.data : r.user_id = u}
         IN  /\ IF reminders.kind \in NonObject
                THEN Raise("list_reminders", NoId, "AttributeError")
                ELSE /\ handler' = [op |-> "list_reminders", pc |-> "reply",
                                    rid |-> NoId,
                                    msg |-> IF user_rems = {} THEN "no_pending"
                                            ELSE "list"]
                     /\ UNCHANGED wr
             /\ listing' = [user |-> u, ids |-> sorted_by_when_ts(user_rems)]
             /\ UNCHANGED <<now, proc, crashes, nextId, file, tmp, jobs,
                            alarms, loaded, hist, boot>>

\* A store value for "nothing is saved".
Same == [kind |-> "same", data |-> {}]

\* Mutant of cancel_plan: the record is deleted and the jobs are left armed.
cancel_plan_keeps_jobs(reminders, rid, js) ==
    IF rid \notin IdsOf(reminders.data)
    THEN [found |-> FALSE, jobs |-> js, store |-> Same]
    ELSE [found |-> TRUE, jobs |-> js,
          store |-> Obj({r \in reminders.data : r.id # rid})]

\* cancel_reminder after its load: not found, or the jobs named rid removed
\* from the queue and the store without the record, to be saved.
cancel_plan(reminders, rid, js) ==
    IF rid \notin IdsOf(reminders.data)
    THEN [found |-> FALSE, jobs |-> js, store |-> Same]
    ELSE [found |-> TRUE, jobs |-> {j \in js : j.name # rid},
          store |-> Obj({r \in reminders.data : r.id # rid})]

\* /cancel <id>
cancel_reminder ==
    /\ CanHandle
    /\ \E rid \in Ids \cup {NoId}, readOk \in ReadOutcomes :
         LET plan == cancel_plan(load_reminders(file, readOk), rid, jobs)
         IN  IF rid = NoId THEN Reply("cancel_reminder", NoId, "usage")
             ELSE IF load_reminders(file, readOk).kind = "null"
             THEN /\ Raise("cancel_reminder", rid, "TypeError")
                  /\ UNCHANGED <<now, proc, crashes, nextId, file, tmp, jobs,
                                 alarms, loaded, hist, listing, boot>>
             ELSE /\ jobs' = plan.jobs
                  /\ IF plan.found
                     THEN /\ wr' = [owner |-> "cancel_reminder", rid |-> rid,
                                    data |-> plan.store.data]
                          /\ handler' = [op |-> "cancel_reminder",
                                         pc |-> "save", rid |-> rid,
                                         msg |-> "none"]
                     ELSE /\ wr' = wr
                          /\ handler' = [op |-> "cancel_reminder",
                                         pc |-> "reply", rid |-> rid,
                                         msg |-> "not_found"]
                  /\ UNCHANGED <<now, proc, crashes, nextId, file, tmp,
                                 alarms, loaded, hist, listing, boot>>

\* The await on reply_text returns: the handler is over.
reply ==
    /\ proc = "up" /\ ~Busy
    /\ handler.pc = "reply"
    /\ handler' = Idle
    /\ confirmed' = IF handler.msg = "cancelled"
                    THEN confirmed \cup {handler.rid} ELSE confirmed
    /\ listing' = NoListing
    /\ UNCHANGED <<now, proc, crashes, nextId, file, tmp, orphans, wr, jobs,
                   alarms, loaded, sends, created, cancelled, faulty, boot>>

\* The application logs the handler's uncaught exception; nothing is sent.
handler_error ==
    /\ proc = "up" /\ ~Busy
    /\ handler.pc = "raised"
    /\ handler' = Idle
    /\ listing' = NoListing
    /\ UNCHANGED <<now, proc, crashes, nextId, file, tmp, wr, jobs, alarms,
                   loaded, hist, boot>>

\* ------------------------------------------------------------ timer callback
\* Whether the job queue runs j no later than k: by run time, and for two
\* run times in the same second by the order of the run_once calls, which
\* is the order of the ids (the recovery loop follows the order of the file,
\* which is the order of insertion, and a create comes after every earlier
\* run_once of its process).
RunsFirst(j, k) ==
    j.due < k.due \/ (j.due = k.due /\ j.name <= k.name)

\* The job queue runs the first due run_once job: the job leaves the queue
\* and alarm starts, up to its await on send_message.
run_job ==
    /\ proc = "up" /\ ~Busy
    /\ \E j \in jobs :
         /\ j.due <= now
         /\ \A k \in jobs : RunsFirst(j, k)
         /\ jobs' = jobs \ {j}
         /\ alarms' = alarms \cup {[rid |-> j.name, chat_id |-> j.chat_id]}
    /\ UNCHANGED <<now, proc, crashes, nextId, file, tmp, wr, handler,
                   loaded, hist, listing, boot>>

\* Mutant of Consume: the store is saved whether the record was there or not.
consume_always_saves(reminders, rid) ==
    Obj({r \in reminders.data : r.id # rid})

\* The store alarm saves after its send: its record deleted if it is there
\* (Same: the record is not there, and nothing is saved; on null the
\* membership test raises, which ends alarm with nothing saved either).
Consume(reminders, rid) ==
    IF rid \in IdsOf(reminders.data)
    THEN Obj({r \in reminders.data : r.id # rid})
    ELSE Same

\* alarm resumes from send_message (sent, or the exception logged), loads
\* the store and deletes its record.
alarm ==
    /\ proc = "up" /\ ~Busy
    /\ \E a \in alarms, sendOk \in BOOLEAN, readOk \in ReadOutcomes :
         LET store == Consume(load_reminders(file, readOk), a.rid)
         IN  /\ alarms' = alarms \ {a}
             /\ sends' = [sends EXCEPT ![a.rid] = Append(@, sendOk)]
             /\ wr' = IF store = Same THEN wr
                      ELSE [owner |-> "alarm", rid |-> a.rid,
                            data |-> store.data]
    /\ UNCHANGED <<now, proc, crashes, nextId, file, tmp, orphans, jobs,
                   handler, loaded, listing, created, cancelled, confirmed,
                   faulty, boot>>

Next ==
    \/ main
    \/ reschedule_persisted_reminders
    \/ Crash
    \/ Tick
    \/ cmd_remind
    \/ set_reminder
    \/ list_reminders
    \/ cancel_reminder
    \/ reply
    \/ handler_error
    \/ run_job
    \/ alarm
    \/ write_create_tmp
    \/ write_dump
    \/ write_replace
    \/ write_fail

Spec == Init /\ [][Next]_vars

\* The runs in which no read and no write of the store fails: crashes,
\* failing sends and every interleaving remain.
NextReliable ==
    \/ main
    \/ reschedule_persisted_reminders
    \/ Crash
    \/ Tick
    \/ cmd_remind
    \/ set_reminder
    \/ list_reminders
    \/ cancel_reminder
    \/ reply
    \/ handler_error
    \/ run_job
    \/ alarm
    \/ write_create_tmp
    \/ write_dump
    \/ write_replace

InitReliable == Init /\ ~faulty

ReliableSpec == InitReliable /\ [][NextReliable]_vars

\* The scheduling the code relies on: the event loop runs every ready task,
\* the job queue runs every due job, time passes, a stopped process is
\* started again.  Crashes, failing reads, writes and sends, and the user's
\* commands are not fair: they may or may not happen.  What a write in
\* progress holds back (the clock of the model, a due job, a resumed task)
\* is strongly fair: commands that keep coming do not starve it.
FairSpec ==
    /\ Spec
    /\ WF_vars(main)
    /\ WF_vars(reschedule_persisted_reminders)
    /\ SF_vars(Tick)
    /\ SF_vars(run_job)
    /\ SF_vars(alarm)
    /\ WF_vars(write_create_tmp)
    /\ WF_vars(write_dump)
    /\ WF_vars(write_replace)
    /\ SF_vars(reply)
    /\ SF_vars(handler_error)

\* ------------------------------------------- parse_delay_from_text alone
\* The unit words of TIME_RE by their first letter, which is all that
\* unit.startswith looks at.
Units == {"s", "m", "h", "d"}

\* Quantities around the floor and around the ceiling of each unit.
Quantities(unit) ==
    LET top == MAX_REMINDER_SECONDS \div Multiplier(unit)
    IN  {0, 1, 2, 3, 5, 10, 59, 60, 90, top - 1, top, top + 1, top + 2,
         2 * top, 2 * top + 1}

ParseCalls ==
    {[num |-> n, unit |-> u, pc |-> "call", seconds |-> 0] :
        n \in Quantities("s"), u \in {"s"}}
    \cup {[num |-> n, unit |-> u, pc |-> "call", seconds |-> 0] :
        n \in Quantities("m"), u \in {"m"}}
    \cup {[num |-> n, unit |-> u, pc |-> "call", seconds |-> 0] :
        n \in Quantities("h"), u \in {"h"}}
    \cup {[num |-> n, unit |-> u, pc |-> "call", seconds |-> 0] :
        n \in Quantities("d"), u \in {"d"}}

InitParse ==
    /\ InitBot
    /\ file = Missing
    /\ ~faulty
    /\ token = "set"
    /\ parsing \in ParseCalls

parse_call ==
    /\ parsing.pc = "call"
    /\ parsing' = [parsing EXCEPT
                     !.pc = "returned",
                     !.seconds = parse_delay_from_text(<<parsing.num,
                                                         parsing.unit>>)]
    /\ UNCHANGED <<now, proc, crashes, nextId, file, tmp, wr, jobs, alarms,
                   handler, loaded, listing, token, exit_status, hist>>

ParseSpec == InitParse /\ [][parse_call]_vars

\* ------------------------------------------------------------------ claims
FileIds == IdsOf(file.data)
Creates == {"cmd_remind", "set_reminder"}

\* How many of alarm's sends for id i reached the chat.
Delivered(i) == Cardinality({k \in 1..Len(sends[i]) : sends[i][k]})

\* alarm has run its send for id i (the timer fired, the callback executed).
Fired(i) == sends[i] # <<>>

\* No handler and no callback is in the middle of its execution.
Quiescent == proc = "up" /\ handler = Idle /\ alarms = {} /\ ~Busy

\* C1: at-most-once delivery.  Over create, expiry, cancel, crash and
\* restart with recovery, alarm's message for an id reaches the chat at most
\* once.
C1_AtMostOnce ==
    \A i \in Ids : Delivered(i) <= 1

\* C2: a reminder is fired or cancelled, never both.  In every interleaving
\* of /cancel with alarm for the same id, no id is both delivered by alarm
\* and confirmed to the user as cancelled.
C2_FiredXorCancelled ==
    \A i \in Ids : ~(Delivered(i) >= 1 /\ i \in confirmed)

\* C3: with nothing in flight, a created reminder's record is in the store
\* if and only if the reminder has neither fired nor been cancelled.
C3_StoredIffPending ==
    Quiescent =>
        \A i \in created :
            (i \in FileIds) <=> (~Fired(i) /\ i \notin cancelled)

\* C4: under the fairness of FairSpec and with finitely many crashes, a
\* reminder that create has persisted is, unless it is cancelled, eventually
\* sent by alarm and then gone from the store.
C4_EventuallyDelivered ==
    \A i \in Ids :
        (i \in created) ~> (i \in cancelled \/ (Fired(i) /\ i \notin FileIds))

\* The delay max(1, when_ts - now), and the timers it gives the records d.
FloorDelay(r) == IF r.when_ts - now > 1 THEN r.when_ts - now ELSE 1

C5_Armed(d) ==
    {[name |-> r.id, chat_id |-> r.chat_id, due |-> now + FloorDelay(r)] : r \in d}

\* The records that have the keys register reads and a delay within the
\* ceiling.
C5_Registrable(d) ==
    {r \in d : r.chat_id # NoKey /\ FloorDelay(r) <= MAX_REMINDER_SECONDS}

\* C5: when startup recovery finishes (no update handled yet), the job queue
\* holds exactly one timer per record of the loaded store, with delay
\* max(1, when_ts - now): a record at or before now gets the floor delay 1.
C5_RecoveryArmsAll ==
    [][(proc = "starting" /\ proc' = "up")
          => (handler' = Idle /\ jobs' = C5_Armed(loaded.data))]_vars

\* C5 as amended: when startup recovery finishes (no update handled yet),
\* the job queue holds exactly one timer, with delay max(1, when_ts - now),
\* per loaded record that has the keys register reads and whose delay is at
\* most the ceiling; the other records get no timer.
C5_RecoveryArmsRegistrable ==
    [][(proc = "starting" /\ proc' = "up")
          => (handler' = Idle /\ jobs' = C5_Armed(C5_Registrable(loaded.data)))]_vars

\* C5 witness: recovery has just armed, with the floor delay, a record whose
\* when_ts is at or before now.
C5_Witness ==
    /\ proc = "up"
    /\ \E r \in file.data : \E j \in jobs :
         j.name = r.id /\ r.when_ts <= now /\ j.due = now + 1

C6_AlarmReturns(i) ==
    /\ proc' = "up"
    /\ wr' = NoWrite
    /\ \/ \E a \in alarms : a.rid = i /\ a \notin alarms'
       \/ wr.owner = "alarm" /\ wr.rid = i

\* C6: whenever alarm returns for an id, its record is not in the store,
\* whether the send succeeded or not; and no send follows a failed send.
C6_ConsumeAlways ==
    /\ [][\A i \in Ids : C6_AlarmReturns(i) => i \notin IdsOf(file'.data)]_vars
    /\ [](\A i \in Ids : \A k \in 1..Len(sends[i]) :
             ~sends[i][k] => k = Len(sends[i]))

C7_SaveFailureStep ==
    /\ wr.owner \in Creates
    /\ wr' = NoWrite
    /\ proc' = "up"
    /\ file' = file

\* C7: when the save of a create fails, the handler goes on to tell the user
\* that the reminder could not be saved; it does not end with the error and
\* does not confirm.
C7_SaveFailureSurfaced ==
    [][C7_SaveFailureStep
          => (handler'.pc = "reply" /\ handler'.msg = "could_not_save")]_vars

\* C8: every step, a crash in the middle of atomic_write_json included,
\* leaves the reminders file with its complete previous content or with the
\* complete content being saved.
C8_AtomicSave ==
    [][file' = file \/ (Busy /\ file' = Obj(wr.data))]_vars

\* C8 witness: the process crashed in the middle of a write (its temp file
\* is left behind) that was changing the store, and the file is whole.
C8_Witness ==
    /\ proc = "down"
    /\ orphans > 0
    /\ file.kind = "obj"
    /\ file.data # {}

\* C9: whatever the reminders file holds, load gives its callers a mapping
\* (an empty one when the file is missing, unparseable or not an object),
\* and neither startup nor a handler ends with an error over its content.
C9_LoadNeverFails ==
    /\ loaded.kind = "obj"
    /\ file.kind \in {"missing", "corrupt"} \cup NonObject => loaded.data = {}
    /\ proc # "failed"
    /\ ~(handler.pc = "raised" /\ handler.msg \in {"TypeError", "AttributeError"})

C10_CancelAbsentStep ==
    /\ handler = Idle
    /\ handler'.op = "cancel_reminder"
    /\ handler'.rid # NoId
    /\ handler'.rid \notin FileIds

C10_CancelAbsentReplies ==
    /\ handler.op = "cancel_reminder"
    /\ handler.msg = "not_found"
    /\ handler' = Idle

\* C10: /cancel of an id that is not in the store answers "not found" and
\* changes neither the file nor the job queue, and starts no write.
C10_CancelAbsent ==
    [][/\ C10_CancelAbsentStep
          => /\ handler'.pc = "reply"
             /\ handler'.msg = "not_found"
             /\ UNCHANGED <<file, tmp, jobs, wr>>
       /\ C10_CancelAbsentReplies => UNCHANGED <<file, tmp, jobs, wr>>]_vars

\* C11: in startup recovery a record that fails in register is skipped and
\* the loop goes on: recovery completes, and every other record register
\* accepts has its timer, with delay max(1, when_ts - now).
C11_SkipAndContinue ==
    [][(proc = "starting" /\ proc' # "starting" /\ loaded.kind = "obj"
          /\ \E bad \in loaded.data : bad.chat_id = NoKey)
          => /\ proc' = "up"
             /\ \A r \in C5_Registrable(loaded.data) :
                  \E j \in jobs' : j.name = r.id /\ j.due = now + FloorDelay(r)]_vars

\* C11 witness: the store holds a record without chat_id and another record
\* whose timer recovery armed (with the floor delay: a create arms its
\* timer at when_ts).
C11_Witness ==
    /\ proc = "up"
    /\ \E bad \in file.data : \E good \in file.data : \E j \in jobs :
         /\ bad.chat_id = NoKey
         /\ good.id # bad.id
         /\ j.name = good.id
         /\ j.due > good.when_ts

\* C12: callbacks start in the order of when_ts.  When alarm starts for a
\* record, no alarm is already running (suspended in its send) for a record
\* with a later when_ts, re-armed records included.
C12_FireOrder ==
    [][\A a \in alarms' \ alarms : \A b \in alarms :
         \A ra \in file.data : \A rb \in file.data :
            (ra.id = a.rid /\ rb.id = b.rid) => ~(ra.when_ts < rb.when_ts)]_vars

\* The when_ts of the record with id i in the file.
WhenOf(i) == (CHOOSE r \in file.data : r.id = i).when_ts

\* C13: /reminders answers with exactly the requester's records of the
\* store, in ascending order of when_ts, and with "no pending reminders",
\* not an error, when the requester has none.
C13_ListExact ==
    [][(handler = Idle /\ handler'.op = "list_reminders")
          => LET mine == {r \in file.data : r.user_id = listing'.user}
                 ids == listing'.ids
             IN  /\ handler'.pc = "reply"
                 /\ handler'.msg = IF mine = {} THEN "no_pending" ELSE "list"
                 /\ {ids[k] : k \in 1..Len(ids)} = IdsOf(mine)
                 /\ Len(ids) = Cardinality(mine)
                 /\ \A k \in 1..Len(ids) : \A l \in 1..Len(ids) :
                       k < l => WhenOf(ids[k]) <= WhenOf(ids[l])]_vars

\* The multiplier the contract gives for each unit.
UnitSeconds(unit) ==
    CASE unit = "s" -> 1 [] unit = "m" -> 60 [] unit = "h" -> 3600
      [] unit = "d" -> 86400

\* C14: parse of "n unit" returns n*k when 1 <= n*k <= 31536000, 1 when
\* n*k < 1 and NOT_FOUND when n*k > 31536000, and never a value outside
\* [1, 31536000].
C14_ParseContract ==
    parsing.pc = "returned" =>
        LET nk == parsing.num * UnitSeconds(parsing.unit)
            out == parsing.seconds
        IN  /\ (1 <= nk /\ nk <= 31536000) => out = nk
            /\ nk < 1 => out = 1
            /\ nk > 31536000 => out = NotFound
            /\ out = NotFound \/ (1 <= out /\ out <= 31536000)

C14_Witness ==
    /\ parsing.pc = "returned"
    /\ parsing.num = 0 /\ parsing.unit = "m"
    /\ parsing.seconds = 1

\* C16: when the token is unset or left at the placeholder, startup
\* registers no handlers, starts no polling, and the process exits with a
\* non-zero status.
C16_NoTokenExit ==
    [][(token \in {"placeholder", "empty"} /\ proc # proc')
          => /\ proc' = "exited"
             /\ exit_status' # 0
             /\ jobs' = {} /\ handler' = Idle]_vars

\* C15: the deletion step of alarm for an id that is no longer in the store
\* raises no error and leaves the store unchanged: nothing is written.
C15_ConsumeIdempotent ==
    [][(proc = "up" /\ proc' = "up")
          => \A a \in alarms \ alarms' :
               a.rid \notin FileIds
                  => /\ file.kind # "null"
                     /\ wr' = wr /\ tmp' = tmp /\ file' = file]_vars

C15_Witness ==
    /\ ~faulty /\ crashes = 0
    /\ alarms = {} /\ wr = NoWrite
    /\ \E i \in cancelled : sends[i] # <<>> /\ i \notin FileIds

\* C17: no lost update.  No write of the store comes between an operation's
\* load and its save, so every save leaves the store as the previous store
\* with that one operation applied: a create adds its record and keeps the
\* others, a cancel or a consume removes its record and keeps the others.
C17_NoLostUpdate ==
    [][(wr # NoWrite /\ file' # file)
          => /\ wr' = NoWrite
             /\ IF wr.owner \in Creates
                THEN /\ wr.rid \in IdsOf(file'.data)
                     /\ {r \in file'.data : r.id # wr.rid} = file.data
                ELSE file'.data = {r \in file.data : r.id # wr.rid}]_vars

\* C19: every record that was in the store file before a create is still in
\* it after the create, so no armed timer is left without its record.
C19_CreatePreserves ==
    [][(handler.op \in Creates /\ handler.pc = "save" /\ file' # file)
          => /\ file.data \subseteq file'.data
             /\ \A j \in jobs : j.name \in IdsOf(file'.data)]_vars

\* C18: once /cancel has removed the record of a reminder, no timer named
\* by its id is armed and no callback for the id starts, in the same
\* process or after a restart with recovery.
C18_CancelledNeverFires ==
    [][\A i \in cancelled' :
          /\ \A j \in jobs' : j.name # i
          /\ \A a \in alarms' \ alarms : a.rid # i]_vars

C18_Witness ==
    /\ proc = "up" /\ crashes = 1 /\ now = MaxTime
    /\ \E i \in cancelled \cap created :
         /\ sends[i] = <<>>
         /\ \A a \in alarms : a.rid # i

\* The timers armed under the name i.
TimersOf(i) == {j \in jobs : j.name = i}

\* C20: with no storage failure, in every state after recovery in which no
\* handler or callback is mid-execution, every record in the store has
\* exactly one armed timer named by its id, and no id is armed twice.
C20_OneTimerPerRecord ==
    Quiescent =>
        /\ \A r \in file.data : Cardinality(TimersOf(r.id)) = 1
        /\ \A i \in Ids : Cardinality(TimersOf(i)) <= 1

\* C20 as amended: the same for every record made by create; a record found
\* in the file at startup may be one that register skips or refuses.
C20_OneTimerPerCreated ==
    Quiescent =>
        /\ \A r \in file.data :
              r.id \in created => Cardinality(TimersOf(r.id)) = 1
        /\ \A i \in Ids : Cardinality(TimersOf(i)) <= 1

C20_Witness ==
    /\ Quiescent /\ crashes = 1
    /\ \E r \in file.data : \E q \in file.data :
         /\ r.id \in created /\ q.id \notin created
         /\ Cardinality(TimersOf(r.id)) = 1
         /\ TimersOf(q.id) = {}
====
